---------------------------- MODULE Spec2Model ----------------------------
(***************************************************************************)
(* A model of the download engine of http-client (src/src/client.rs):     *)
(* ClientRequest::download / download_to_file, request_size,              *)
(* download_sized and download_chunked, run against a server that may     *)
(* answer each request with any response of a small alphabet.             *)
(*                                                                         *)
(* Text (header values) is a sequence of one-character strings, so that   *)
(* the formatting of the Range header and the parsing of Content-Length   *)
(* and Content-Range are computed as the code computes them.  A body is   *)
(* a span of the resource ("content", from, len) or other bytes ("junk"). *)
(***************************************************************************)
EXTENDS Integers, Sequences, FiniteSets

(* ------------------------------ bounds -------------------------------- *)

\* Requests one invocation may issue in the model (the probe included).
MaxRequests == 4

\* Threads that call Config::tls_settings(), and calls each of them makes.
NumCallers == 3
MaxCalls == 2

\* Builder calls made on a request after its constructor.
MaxBuildSteps == 3

\* Characters typed after the key of a JSON text.
MaxTail == 3

\* Largest value of the machine word (usize) of the model: 2^30 - 1.
UsizeMax == 1073741823

(* ------------------------- program constants -------------------------- *)

MAX_BLOCK_SIZE == 1000000

H_RANGE == "Range"
H_CONTENT_RANGE == "Content-Range"
H_CONTENT_LENGTH == "Content-Length"
H_TRANSFER_ENCODING == "Transfer-Encoding"
H_USER_AGENT == "User-Agent"
H_HOST == "Host"

StatusOK == 200
StatusPartialContent == 206

(* ------------------------------- text --------------------------------- *)

DigitChars == <<"0", "1", "2", "3", "4", "5", "6", "7", "8", "9">>

IsDigit(c) == \E d \in 1..10 : DigitChars[d] = c

DigitVal(c) == (CHOOSE d \in 1..10 : DigitChars[d] = c) - 1

\* format!("{n}") of an unsigned integer: its decimal digits.
RECURSIVE FormatUsize(_)
FormatUsize(n) ==
    IF n < 10 THEN <<DigitChars[n + 1]>>
    ELSE FormatUsize(n \div 10) \o <<DigitChars[(n % 10) + 1]>>

\* str::parse::<usize>: -1 stands for Err (empty, a non-digit, or a value
\* that does not fit the word); a leading "+" is accepted.
RECURSIVE ParseDigits(_, _, _)
ParseDigits(s, i, acc) ==
    IF i > Len(s) THEN acc
    ELSE IF ~IsDigit(s[i]) THEN -1
    ELSE LET d == DigitVal(s[i])
         IN  IF acc > (UsizeMax - d) \div 10 THEN -1
             ELSE ParseDigits(s, i + 1, acc * 10 + d)

ParseUsize(s) ==
    IF Len(s) = 0 THEN -1
    ELSE IF s[1] = "+" THEN (IF Len(s) = 1 THEN -1 ELSE ParseDigits(s, 2, 0))
    ELSE ParseDigits(s, 1, 0)

StartsWithAt(s, i, pat) ==
    /\ i + Len(pat) - 1 <= Len(s)
    /\ \A k \in 1..Len(pat) : s[i + k - 1] = pat[k]

\* str::contains
Contains(s, pat) == \E i \in 1..(Len(s) + 1) : StartsWithAt(s, i, pat)

\* str::replace(pat, ""): every non-overlapping occurrence, left to right.
RECURSIVE RemoveAllFrom(_, _, _)
RemoveAllFrom(s, i, pat) ==
    IF i > Len(s) THEN <<>>
    ELSE IF StartsWithAt(s, i, pat) THEN RemoveAllFrom(s, i + Len(pat), pat)
    ELSE <<s[i]>> \o RemoveAllFrom(s, i + 1, pat)

RemoveAll(s, pat) == RemoveAllFrom(s, 1, pat)

UpperChars ==
    <<"A", "B", "C", "D", "E", "F", "G", "H", "I", "J", "K", "L", "M",
      "N", "O", "P", "Q", "R", "S", "T", "U", "V", "W", "X", "Y", "Z">>

LowerChars ==
    <<"a", "b", "c", "d", "e", "f", "g", "h", "i", "j", "k", "l", "m",
      "n", "o", "p", "q", "r", "s", "t", "u", "v", "w", "x", "y", "z">>

\* char::to_ascii_lowercase
AsciiLower(c) ==
    IF \E i \in 1..26 : UpperChars[i] = c
    THEN LowerChars[CHOOSE i \in 1..26 : UpperChars[i] = c]
    ELSE c

\* str::to_ascii_lowercase
LowerCase(s) == [i \in 1..Len(s) |-> AsciiLower(s[i])]

\* str::eq_ignore_ascii_case
EqIgnoreAsciiCase(s, t) == LowerCase(s) = LowerCase(t)

IsSpace(c) == c = " "

\* str::trim
RECURSIVE TrimStart(_)
TrimStart(s) ==
    IF Len(s) > 0 /\ IsSpace(s[1]) THEN TrimStart(Tail(s)) ELSE s

RECURSIVE TrimEnd(_)
TrimEnd(s) ==
    IF Len(s) > 0 /\ IsSpace(s[Len(s)])
    THEN TrimEnd(SubSeq(s, 1, Len(s) - 1)) ELSE s

Trim(s) == TrimEnd(TrimStart(s))

\* str::split(['-', '/']): the pieces between delimiters, empty ones kept.
RECURSIVE SplitFrom(_, _, _, _)
SplitFrom(s, i, cur, delims) ==
    IF i > Len(s) THEN <<cur>>
    ELSE IF s[i] \in delims THEN <<cur>> \o SplitFrom(s, i + 1, <<>>, delims)
    ELSE SplitFrom(s, i + 1, Append(cur, s[i]), delims)

Split(s, delims) == SplitFrom(s, 1, <<>>, delims)

\* flat_map(|value| value.parse::<usize>()).collect(): the pieces that parse.
RECURSIVE ParsedTokens(_)
ParsedTokens(pieces) ==
    IF Len(pieces) = 0 THEN <<>>
    ELSE LET v == ParseUsize(Head(pieces))
         IN  (IF v = -1 THEN <<>> ELSE <<v>>) \o ParsedTokens(Tail(pieces))

BytesWord == <<"b", "y", "t", "e", "s">>

\* The tokens the segmented loop reads from a Content-Range value.
ContentRangeTokens(value) ==
    ParsedTokens(Split(Trim(RemoveAll(value, BytesWord)), {"-", "/"}))

\* format!("bytes={start_byte}-{end_byte}/{size}")
RangeValue(start, end, total) ==
    BytesWord \o <<"=">> \o FormatUsize(start) \o <<"-">> \o FormatUsize(end)
        \o <<"/">> \o FormatUsize(total)

(* ------------------------------ headers ------------------------------- *)

HeaderIndex(headers, name) ==
    IF \E i \in 1..Len(headers) : headers[i].name = name
    THEN CHOOSE i \in 1..Len(headers) :
            /\ headers[i].name = name
            /\ \A j \in 1..(i - 1) : headers[j].name # name
    ELSE 0

HasHeader(headers, name) == HeaderIndex(headers, name) # 0

HeaderValue(headers, name) == headers[HeaderIndex(headers, name)].value

\* HttpRequest::put_header: a later put of the same name overwrites.
PutHeader(headers, name, value) ==
    IF HasHeader(headers, name)
    THEN [headers EXCEPT ![HeaderIndex(headers, name)].value = value]
    ELSE Append(headers, [name |-> name, value |-> value])

RECURSIVE PutAll(_, _)
PutAll(headers, more) ==
    IF Len(more) = 0 THEN headers
    ELSE PutAll(PutHeader(headers, Head(more).name, Head(more).value), Tail(more))


(* ------------------------ requests and bodies ------------------------- *)

Txt_bytes09 == <<"b", "y", "t", "e", "s", "=", "0", "-", "9">>
Txt_agent == <<"W", "D">>
Txt_host == <<"h">>
Txt_any == <<"*">>
Txt_form == <<"a", "=", "1">>
Txt_chunked == <<"c", "h", "u", "n", "k", "e", "d">>
Txt_Chunked == <<"C", "h", "u", "n", "k", "e", "d">>
Txt_gzip == <<"g", "z", "i", "p">>
Txt_abc == <<"a", "b", "c">>
ChunkWord == <<"c", "h", "u", "n", "k">>

Hdr(n, v) == [name |-> n, value |-> v]

\* ClientRequest::new: the request the constructors build.
NewRequest(method) ==
    [method |-> method,
     path |-> "/file",
     headers |-> <<Hdr(H_USER_AGENT, Txt_agent), Hdr(H_HOST, Txt_host)>>,
     body |-> <<>>]

\* ClientRequest::header
WithHeader(req, name, value) ==
    [req EXCEPT !.headers = PutHeader(req.headers, name, value)]

\* ClientRequest<Body>::body
WithBody(req, data) == [req EXCEPT !.body = req.body \o data]

\* The request templates a caller hands to download()/download_to_file().
Templates ==
    { NewRequest("GET"),
      WithHeader(NewRequest("GET"), "Accept", Txt_any),
      WithHeader(NewRequest("GET"), H_RANGE, Txt_bytes09),
      WithBody(NewRequest("POST"), Txt_form) }

Txt_http == <<"h", "t", "t", "p">>
Txt_https == <<"h", "t", "t", "p", "s">>
Txt_HTTPS == <<"H", "T", "T", "P", "S">>

\* The URLs a request is built for: the scheme, the host, and whether the
\* host is a valid TLS server name (ServerName::try_from succeeds).
Urls ==
    { [scheme |-> Txt_http, host |-> "h", name_ok |-> TRUE],
      [scheme |-> Txt_HTTPS, host |-> "h", name_ok |-> TRUE],
      [scheme |-> Txt_https, host |-> "h_", name_ok |-> FALSE] }

\* A comparison of the scheme that minds the case.
IsSecureSameCase(u) == u.scheme = Txt_https

\* ClientRequest::new, line 143: the transport of every request.
IsSecure(u) == EqIgnoreAsciiCase(u.scheme, Txt_https)

\* Sizes of the resources the server holds.
ResourceSizes == {0, MAX_BLOCK_SIZE, MAX_BLOCK_SIZE + 1, 2500000}

ContentBody(from, len) == [kind |-> "content", from |-> from, len |-> len]
JunkBody(len) == [kind |-> "junk", from |-> 0, len |-> len]
EmptyBody == ContentBody(0, 0)

Response(status, msg, headers, body) ==
    [status |-> status, msg |-> msg, headers |-> headers, body |-> body]

(* ------------------------------ errors -------------------------------- *)

\* HttpError::BadResponse(status, message)
BadResponse(status, msg) == [kind |-> "BadResponse", status |-> status, msg |-> msg]

\* From<std::io::Error>: HttpParseError::from(value).into(), a ParseError.
FromIoError == [kind |-> "ParseError", status |-> 0, msg |-> <<"io error">>]

\* From<HttpParseError>: header.value::<usize>()? on a malformed value.
FromHttpParseError == [kind |-> "ParseError", status |-> 0, msg |-> <<"invalid value">>]

\* HttpError::InvalidUrl(url.to_string())
InvalidUrl(u) == [kind |-> "InvalidUrl", status |-> 0, msg |-> u.scheme \o <<"://", u.host>>]

\* HttpError::ConnectionError(e.to_string())
ConnectionError == [kind |-> "ConnectionError", status |-> 0, msg |-> <<"tls error">>]

OkResult == [kind |-> "Ok", status |-> 0, msg |-> <<>>]
NoResult == [kind |-> "None", status |-> 0, msg |-> <<>>]

MissingHeaderMsgLength == <<"Missing expected header", H_CONTENT_LENGTH>>

\* The status and format failures the engine reports itself.
MissingHeaderMsg == <<"Missing expected header", H_CONTENT_RANGE>>
UnsupportedValueMsg(value) ==
    <<"Unsupported value for header", H_CONTENT_RANGE>> \o value
UnknownSizeMsg(msg) == msg \o <<"Cannot determine resource size from headers.">>


(* ------------------------------ server -------------------------------- *)

Min(a, b) == IF a <= b THEN a ELSE b

\* "bytes a-b/t", the Content-Range value of a span.
ContentRangeValue(a, b, t) ==
    BytesWord \o <<" ">> \o FormatUsize(a) \o <<"-">> \o FormatUsize(b)
        \o <<"/">> \o FormatUsize(t)

\* "bytes */t", the Content-Range value of an unsatisfied range.
UnsatisfiedRangeValue(t) == BytesWord \o <<" ", "*", "/">> \o FormatUsize(t)

\* The numbers a server reads from the Range header of a request.
RequestedSpan(req) ==
    ParsedTokens(Split(RemoveAll(HeaderValue(req.headers, H_RANGE),
                                 BytesWord \o <<"=">>), {"-", "/"}))

MsgOK == <<"OK">>
MsgPartial == <<"Partial Content">>
MsgNotFound == <<"Not Found">>
MsgCustom == <<"Custom">>

ErrorResponses ==
    { Response(404, MsgNotFound, <<>>, JunkBody(9)),
      Response(500, MsgCustom, <<>>, JunkBody(9)) }

\* What a server may answer to the probe (HEAD) for a resource of size T.
ProbeResponses(T) ==
    { Response(404, MsgNotFound, <<>>, EmptyBody),
      Response(500, MsgCustom, <<>>, EmptyBody),
      Response(StatusPartialContent, MsgPartial,
               <<Hdr(H_CONTENT_LENGTH, FormatUsize(T))>>, EmptyBody),
      Response(StatusOK, MsgOK, <<Hdr(H_CONTENT_LENGTH, FormatUsize(T))>>, EmptyBody),
      Response(StatusOK, MsgOK, <<Hdr(H_CONTENT_LENGTH, FormatUsize(T)),
                                  Hdr(H_TRANSFER_ENCODING, Txt_chunked)>>, EmptyBody),
      Response(StatusOK, MsgOK, <<Hdr(H_CONTENT_LENGTH, Txt_abc),
                                  Hdr(H_TRANSFER_ENCODING, Txt_chunked)>>, EmptyBody),
      Response(StatusOK, MsgOK, <<Hdr(H_CONTENT_LENGTH, Txt_abc)>>, EmptyBody),
      Response(StatusOK, MsgOK, <<Hdr(H_TRANSFER_ENCODING, Txt_chunked)>>, EmptyBody),
      Response(StatusOK, MsgOK, <<Hdr(H_TRANSFER_ENCODING, Txt_Chunked)>>, EmptyBody),
      Response(StatusOK, MsgOK, <<Hdr(H_TRANSFER_ENCODING, Txt_gzip)>>, EmptyBody),
      Response(StatusOK, MsgOK, <<>>, EmptyBody) }

\* What a server may answer to a request without a Range the engine wrote
\* (the single request of a small or chunked resource).
WholeResponses(T) ==
    ErrorResponses \cup
    { Response(StatusOK, MsgOK, <<>>, ContentBody(0, T)),
      Response(StatusOK, MsgOK, <<>>, ContentBody(0, T \div 2)) }

\* The span of the resource an honest server returns for a request that
\* starts at s: up to the end asked for, or up to one block.
TrueSpanEnds(s, e, T) == {Min(e, T - 1), Min(s + MAX_BLOCK_SIZE - 1, T - 1)}

\* What a server may answer to a range request for a resource of size T.
RangeResponses(req, T) ==
    LET span == RequestedSpan(req)
        s == span[1]
        e == span[2]
    IN  ErrorResponses \cup
        { Response(StatusOK, MsgOK, <<>>, ContentBody(0, T)),
          Response(StatusPartialContent, MsgPartial, <<>>, ContentBody(0, T)),
          Response(StatusPartialContent, MsgPartial,
                   <<Hdr(H_CONTENT_RANGE, UnsatisfiedRangeValue(T))>>, EmptyBody),
          Response(StatusPartialContent, MsgPartial,
                   <<Hdr(H_CONTENT_RANGE, ContentRangeValue(s + 1, s, T))>>, EmptyBody),
          Response(StatusPartialContent, MsgPartial,
                   <<Hdr(H_CONTENT_RANGE, ContentRangeValue(s + 2, s, T))>>, EmptyBody),
          Response(StatusPartialContent, MsgPartial,
                   <<Hdr(H_CONTENT_RANGE, ContentRangeValue(0, 0, T))>>,
                   ContentBody(0, 1)),
          Response(StatusPartialContent, MsgPartial,
                   <<Hdr(H_CONTENT_RANGE, ContentRangeValue(s, T, T))>>,
                   ContentBody(s, 1)) } \cup
        { Response(StatusPartialContent, MsgPartial,
                   <<Hdr(H_CONTENT_RANGE, ContentRangeValue(s, b, T))>>,
                   ContentBody(s, b - s + 1)) : b \in IF s < T THEN TrueSpanEnds(s, e, T) ELSE {} } \cup
        { Response(StatusOK, MsgOK,
                   <<Hdr(H_CONTENT_RANGE, ContentRangeValue(s, b, T))>>,
                   ContentBody(s, 1)) : b \in IF s + 1 < T THEN {Min(s + MAX_BLOCK_SIZE - 1, T - 1)} ELSE {} }

\* A reply of a stable server: 206, the true Content-Range of a span that
\* starts at the requested start, and exactly the bytes of that span.
IsHonestReply(req, resp, T) ==
    LET s == RequestedSpan(req)[1]
        tok == ContentRangeTokens(HeaderValue(resp.headers, H_CONTENT_RANGE))
    IN  /\ resp.status = StatusPartialContent
        /\ Len(resp.headers) = 1
        /\ HasHeader(resp.headers, H_CONTENT_RANGE)
        /\ Len(tok) = 3
        /\ tok[1] = s /\ s <= tok[2] /\ tok[2] < T /\ tok[3] = T
        /\ resp.headers = <<Hdr(H_CONTENT_RANGE, ContentRangeValue(s, tok[2], T))>>
        /\ resp.body = ContentBody(s, tok[2] - s + 1)

\* A reply of a server that returns exactly the span the Range header asks
\* for, clamped to the resource.
IsExactReply(req, resp, T) ==
    LET s == RequestedSpan(req)[1]
        b == Min(RequestedSpan(req)[2], T - 1)
    IN  /\ s <= b
        /\ resp.status = StatusPartialContent
        /\ resp.headers = <<Hdr(H_CONTENT_RANGE, ContentRangeValue(s, b, T))>>
        /\ resp.body = ContentBody(s, b - s + 1)


(* ------------------------------- state -------------------------------- *)

VARIABLES
    pc,              \* Init, Probing, Transferring, Complete, Failed, Panicked
    api,             \* "download" or "download_to_file"
    overflow_checks, \* the build: TRUE panics on overflow, FALSE wraps
    resource,        \* the size of the resource the server holds
    template,        \* self.inner as the caller built it
    inner,           \* self.inner
    fetch,           \* the transfer under way: none, plain, ranged, chunked
    size,            \* the total of the Sized classification
    start_byte, end_byte, total_read,
    sent,            \* the requests issued, in order
    outcomes,        \* what came of each request answered so far
    sink,            \* the bodies written to the writer, one entry per write
    result,          \* what the invocation returned
    honest, exact,   \* every range reply so far was honest / exact
    returned,        \* the bytes download() returned: <<>> or <<bytes>>
    url,             \* self.url
    secure,          \* self.secure
    conn,            \* the channel of the request under way: none, open, closed
    opened, closed,  \* channels opened and channels dropped so far
    cause,           \* what made the invocation fail, when a channel or the writer did
    tls_state,       \* TLS_CONFIG: uninit, running, complete
    tls_builds,      \* how many times the TLS configuration was built
    tls_cell,        \* the object TLS_CONFIG holds: 0, or the number of its build
    callers,         \* the threads calling Config::tls_settings()
    built,           \* what a Client constructor and the builder calls made
    json             \* a text handed to JsonParser::parse_json and what came of it

dlvars == <<pc, api, overflow_checks, resource, template, inner, fetch, size,
            start_byte, end_byte, total_read, sent, outcomes, sink, result,
            honest, exact, returned, url, secure, conn, opened, closed, cause>>

tlsvars == <<tls_state, tls_builds, tls_cell>>

vars == <<dlvars, tlsvars, callers, built, json>>

Callers == 1..NumCallers

\* A thread before it calls Config::tls_settings(): got is the sequence of
\* objects its calls returned.
CallerIdle == [pc |-> "idle", calls |-> 0, got |-> <<>>]

\* TLS_CONFIG before its first use.
TlsUninit ==
    /\ tls_state = "uninit"
    /\ tls_builds = 0
    /\ tls_cell = 0

\* The variables of the other operations of the library stay as they are.
\* No constructor of Client called yet.
BuildIdle ==
    built = [state |-> "none", ctor |-> "none", secure |-> FALSE, steps |-> 0,
             req |-> NewRequest("none"), err |-> NoResult,
             probe |-> NewRequest("none"), forms |-> <<>>]

\* parse_json not called: no text, no result.
NotParsed == [ok |-> FALSE, t |-> "None", v |-> <<>>, pos |-> 0]

JsonIdle == json = [text |-> <<>>, typed |-> 0, out |-> NotParsed]

OthersIdle ==
    /\ callers = [t \in Callers |-> CallerIdle]
    /\ BuildIdle
    /\ JsonIdle

OthersUnchanged == UNCHANGED <<callers, built, json>>

Init ==
    /\ pc = "Init"
    /\ api = "none"
    /\ overflow_checks \in BOOLEAN
    /\ resource \in ResourceSizes
    /\ template \in Templates
    /\ inner = template
    /\ fetch = "none"
    /\ size = 0
    /\ start_byte = 0
    /\ end_byte = 0
    /\ total_read = 0
    /\ sent = <<>>
    /\ outcomes = <<>>
    /\ sink = <<>>
    /\ result = NoResult
    /\ honest = TRUE
    /\ exact = TRUE
    /\ returned = <<>>
    /\ url \in Urls
    /\ secure = IsSecure(url)
    /\ conn = "none"
    /\ opened = 0
    /\ closed = 0
    /\ cause = "none"
    /\ TlsUninit
    /\ OthersIdle

(* --------------------------- the operations --------------------------- *)

ProbeRequestWithoutHeaders(req) ==
    [method |-> "HEAD", path |-> req.path, headers |-> <<>>, body |-> <<>>]

ProbeRequestWithMethod(req) ==
    [method |-> req.method,
     path |-> req.path,
     headers |-> PutAll(<<>>, req.headers),
     body |-> <<>>]

\* request_size, lines 317-323: the probe derived from the template.
ProbeRequest(req) ==
    [method |-> "HEAD",
     path |-> req.path,
     headers |-> PutAll(<<>>, req.headers),
     body |-> <<>>]

ProbeStatusOkOrPartial(status) == status = StatusOK \/ status = StatusPartialContent

\* request_size, line 325: the status the probe accepts.
ProbeStatusOk(status) == status = StatusOK

ClassifyWithFallBack(resp) ==
    LET n == IF HasHeader(resp.headers, H_CONTENT_LENGTH)
             THEN ParseUsize(HeaderValue(resp.headers, H_CONTENT_LENGTH))
             ELSE -1
    IN  IF ~ProbeStatusOk(resp.status)
        THEN [kind |-> "Err", size |-> 0, err |-> BadResponse(resp.status, resp.msg)]
        ELSE IF n # -1
        THEN [kind |-> "Sized", size |-> n, err |-> NoResult]
        ELSE IF /\ HasHeader(resp.headers, H_TRANSFER_ENCODING)
                /\ Contains(HeaderValue(resp.headers, H_TRANSFER_ENCODING), ChunkWord)
        THEN [kind |-> "Chunked", size |-> 0, err |-> NoResult]
        ELSE [kind |-> "Err", size |-> 0,
              err |-> BadResponse(resp.status, UnknownSizeMsg(resp.msg))]

ClassifyChunkedFirst(resp) ==
    IF ~ProbeStatusOk(resp.status)
    THEN [kind |-> "Err", size |-> 0, err |-> BadResponse(resp.status, resp.msg)]
    ELSE IF /\ HasHeader(resp.headers, H_TRANSFER_ENCODING)
            /\ Contains(HeaderValue(resp.headers, H_TRANSFER_ENCODING), ChunkWord)
    THEN [kind |-> "Chunked", size |-> 0, err |-> NoResult]
    ELSE IF HasHeader(resp.headers, H_CONTENT_LENGTH)
    THEN LET n == ParseUsize(HeaderValue(resp.headers, H_CONTENT_LENGTH))
         IN  IF n = -1
             THEN [kind |-> "Err", size |-> 0, err |-> FromHttpParseError]
             ELSE [kind |-> "Sized", size |-> n, err |-> NoResult]
    ELSE [kind |-> "Err", size |-> 0,
          err |-> BadResponse(resp.status, UnknownSizeMsg(resp.msg))]

\* request_size, lines 325-346: Sized(n), Chunked, or the error returned.
Classify(resp) ==
    IF ~ProbeStatusOk(resp.status)
    THEN [kind |-> "Err", size |-> 0, err |-> BadResponse(resp.status, resp.msg)]
    ELSE IF HasHeader(resp.headers, H_CONTENT_LENGTH)
    THEN LET n == ParseUsize(HeaderValue(resp.headers, H_CONTENT_LENGTH))
         IN  IF n = -1
             THEN [kind |-> "Err", size |-> 0, err |-> FromHttpParseError]
             ELSE [kind |-> "Sized", size |-> n, err |-> NoResult]
    ELSE IF /\ HasHeader(resp.headers, H_TRANSFER_ENCODING)
            /\ Contains(HeaderValue(resp.headers, H_TRANSFER_ENCODING), ChunkWord)
    THEN [kind |-> "Chunked", size |-> 0, err |-> NoResult]
    ELSE [kind |-> "Err", size |-> 0,
          err |-> BadResponse(resp.status, UnknownSizeMsg(resp.msg))]

IsSegmentedFromBlock(n) == n >= MAX_BLOCK_SIZE

\* download_sized, line 218: one plain request or the segmented loop.
IsSegmented(n) == n > MAX_BLOCK_SIZE

\* download_sized, line 223: the end of the first window.
FirstEnd(n) == n

\* download_sized, lines 226-227: the request of the next window.
RangeRequest(req, start, end, total) ==
    [req EXCEPT !.headers = PutHeader(req.headers, H_RANGE, RangeValue(start, end, total))]

FirstTransferRequestRanged(c, req) ==
    RangeRequest(req, 0, FirstEnd(c.size), c.size)

\* The first transfer request after a classification c: the template as it
\* is (download_chunked, line 210; download_sized, line 219) or the request
\* of the first window (download_sized, lines 222-228).
FirstTransferRequest(c, req) ==
    IF c.kind = "Sized" /\ IsSegmented(c.size)
    THEN RangeRequest(req, 0, FirstEnd(c.size), c.size)
    ELSE req

\* download_sized, lines 229-230: the statuses the loop accepts.
AcceptedStatus(status) == status = StatusPartialContent \/ status = StatusOK

NextStartSame(b) == b

\* download_sized, line 256: start_byte = tokens[1] + 1.
NextStart(b) == IF b = UsizeMax THEN 0 ELSE b + 1

\* download_sized, lines 255-257, in the arithmetic of the machine word.
Advance(a, b) ==
    LET M == UsizeMax + 1
        subOv == b < a
        diff == IF subOv THEN b - a + M ELSE b - a
        incOv == diff = UsizeMax
        count == IF incOv THEN 0 ELSE diff + 1
        sumOv == total_read + count > UsizeMax
        read == IF sumOv THEN total_read + count - M ELSE total_read + count
        startOv == b = UsizeMax
        endOv == end_byte + MAX_BLOCK_SIZE > UsizeMax
        grown == IF endOv THEN end_byte + MAX_BLOCK_SIZE - M
                 ELSE end_byte + MAX_BLOCK_SIZE
    IN  [overflow |-> subOv \/ incOv \/ sumOv \/ startOv \/ endOv,
         total_read |-> read,
         start_byte |-> NextStart(b),
         end_byte |-> Min(size, grown)]

\* Write::write_all on the writer: a Cursor never fails, a caller's writer
\* may fail before or after it took a part of the bytes.
WriteOutcomes(body) ==
    IF api = "download" THEN {"ok"}
    ELSE IF body.len > 1 THEN {"ok", "fail", "partial"}
    ELSE {"ok", "fail"}

WrittenLater(body, w) == sink

Written(body, w) ==
    IF w = "ok" THEN Append(sink, body)
    ELSE IF w = "partial" THEN Append(sink, [body EXCEPT !.len = 1])
    ELSE sink

ReturnedCursor(r, bytes) == IF api = "download" THEN <<bytes>> ELSE <<>>

\* download, lines 176-182: Ok(cursor.into_inner()) or Ok(data) on success,
\* only the error otherwise; download_to_file returns no bytes.
ReturnedValue(r, bytes) ==
    IF r.kind = "Ok" /\ api = "download" THEN <<bytes>> ELSE <<>>

FinishIoError(r) ==
    /\ pc' = (IF r.kind = "Ok" THEN "Complete" ELSE "Failed")
    /\ result' = (IF r.kind = "Ok" THEN r ELSE FromIoError)
    /\ returned' = ReturnedValue(r, sink')

\* The invocation returns r: Ok(..) or Err(r).
Finish(r) ==
    /\ pc' = (IF r.kind = "Ok" THEN "Complete" ELSE "Failed")
    /\ result' = r
    /\ returned' = ReturnedValue(r, sink')

LeakChannel(n) == n

\* send_insecure_request / send_secure_request return: the connection, a
\* local of the function, is dropped.
DropChannel(n) == n + 1

\* The channel position once a reply is dealt with: the next request is
\* not connected yet, or the invocation is over.
AfterReply == IF pc' \in {"Probing", "Transferring"} THEN "none" ELSE "closed"

Frame ==
    /\ UNCHANGED <<api, overflow_checks, resource, template, url, secure>>
    /\ OthersUnchanged

ConnectErrorAllIo(o, u) == FromIoError

\* The error a request ends with when no channel can be set up
\* (send_secure_request, lines 299-303; send_insecure_request, line 286).
ConnectError(o, u) ==
    IF o = "invalid_name" THEN InvalidUrl(u)
    ELSE IF o = "tls_error" THEN ConnectionError
    ELSE FromIoError

\* What may come of setting up the channel of a request: for a secure
\* request ServerName::try_from, ClientConnection::new and then
\* TcpStream::connect; for a plain one TcpStream::connect alone.
ConnectOutcomes(sec, u) ==
    IF ~sec THEN {"open", "io_error"}
    ELSE IF ~u.name_ok THEN {"invalid_name"}
    ELSE {"open", "io_error", "tls_error"}

\* What came of one request: the error returned for it, or the response
\* taken, the Content-Range tokens read from it and the bytes appended.
Outcome(kind, err, resp, tokens, appended) ==
    [kind |-> kind, err |-> err, status |-> resp.status, msg |-> resp.msg,
     headers |-> resp.headers, body |-> resp.body, tokens |-> tokens,
     appended |-> appended]

NoResponse == Response(0, <<>>, <<>>, EmptyBody)

Appended(body, w) ==
    IF w = "ok" THEN body.len ELSE IF w = "partial" THEN 1 ELSE 0

\* download / download_to_file, up to the probe being on the wire.
Download ==
    /\ pc = "Init"
    /\ Len(sent) < MaxRequests
    /\ api' \in {"download", "download_to_file"}
    /\ pc' = "Probing"
    /\ sent' = Append(sent, ProbeRequest(inner))
    /\ conn' = "none"
    /\ UNCHANGED <<overflow_checks, resource, template, inner, fetch, size,
                   start_byte, end_byte, total_read, outcomes, sink, result,
                   honest, exact, returned, url, secure, opened, closed,
                   cause, tlsvars>>
    /\ OthersUnchanged

\* send_request, up to the channel: for a secure request
\* Config::tls_settings() and the TLS client connection, then the socket.
Connect ==
    /\ pc \in {"Probing", "Transferring"}
    /\ conn = "none"
    /\ tls_state' = (IF secure THEN "complete" ELSE tls_state)
    /\ tls_builds' = (IF secure /\ tls_state = "uninit"
                      THEN tls_builds + 1 ELSE tls_builds)
    /\ tls_cell' = (IF secure /\ tls_state = "uninit"
                    THEN tls_builds + 1 ELSE tls_cell)
    /\ UNCHANGED <<closed, inner, fetch, size, start_byte, end_byte,
                   total_read, sent, sink, honest, exact>>
    /\ \E o \in ConnectOutcomes(secure, url) :
          IF o = "open"
          THEN /\ conn' = "open"
               /\ opened' = opened + 1
               /\ UNCHANGED <<pc, result, returned, outcomes, cause>>
          ELSE /\ outcomes' = Append(outcomes,
                      Outcome("error", ConnectError(o, url), NoResponse, <<>>, 0))
               /\ Finish(ConnectError(o, url))
               /\ cause' = o
               /\ UNCHANGED <<conn, opened>>
    /\ Frame

\* A request fails on its channel (write_all of the request, or the read
\* of the response).
IoFailure ==
    /\ pc \in {"Probing", "Transferring"}
    /\ conn = "open"
    /\ UNCHANGED <<inner, fetch, size, start_byte, end_byte, total_read, sent,
                   sink, honest, exact, opened, tlsvars>>
    /\ outcomes' = Append(outcomes, Outcome("error", FromIoError, NoResponse, <<>>, 0))
    /\ Finish(FromIoError)
    /\ conn' = "closed"
    /\ closed' = DropChannel(closed)
    /\ cause' = "io_error"
    /\ Frame

\* request_size returns; download / download_to_file dispatch on it and the
\* first transfer request goes on the wire.
ProbeReply ==
    /\ pc = "Probing"
    /\ conn = "open"
    /\ UNCHANGED <<sink, honest, exact, opened, cause, tlsvars>>
    /\ closed' = DropChannel(closed)
    /\ \E resp \in ProbeResponses(resource) :
        LET c == Classify(resp)
        IN  IF c.kind = "Err"
            THEN /\ outcomes' = Append(outcomes, Outcome("error", c.err, resp, <<>>, 0))
                 /\ Finish(c.err)
                 /\ UNCHANGED <<inner, fetch, size, start_byte, end_byte,
                                total_read, sent>>
            ELSE /\ Len(sent) < MaxRequests
                 /\ outcomes' = Append(outcomes, Outcome("classified", NoResult, resp, <<>>, 0))
                 /\ pc' = "Transferring"
                 /\ UNCHANGED <<result, returned>>
                 /\ size' = c.size
                 /\ total_read' = 0
                 /\ start_byte' = 0
                 /\ fetch' = (IF c.kind = "Chunked" THEN "chunked"
                               ELSE IF IsSegmented(c.size) THEN "ranged"
                               ELSE "plain")
                 /\ end_byte' = (IF c.kind = "Sized" /\ IsSegmented(c.size)
                                  THEN FirstEnd(c.size) ELSE 0)
                 /\ inner' = FirstTransferRequest(c, inner)
                 /\ sent' = Append(sent, inner')
    /\ conn' = AfterReply
    /\ Frame


\* The single request of a small Sized resource (download_sized, lines
\* 219-220) or of a Chunked one (download_chunked and its caller) is
\* answered: the body of the response is written and the invocation ends.
WholeReply ==
    /\ pc = "Transferring"
    /\ fetch \in {"plain", "chunked"}
    /\ conn = "open"
    /\ closed' = DropChannel(closed)
    /\ \E resp \in WholeResponses(resource) :
       \E w \in WriteOutcomes(resp.body) :
          /\ sink' = Written(resp.body, w)
          /\ cause' = (IF w = "ok" THEN cause ELSE "writer")
          /\ outcomes' = Append(outcomes,
                 Outcome(IF w = "ok" THEN "written" ELSE "error",
                         IF w = "ok" THEN NoResult ELSE FromIoError,
                         resp, <<>>, Appended(resp.body, w)))
          /\ Finish(IF w = "ok" THEN OkResult ELSE FromIoError)
    /\ conn' = AfterReply
    /\ Frame
    /\ UNCHANGED <<inner, fetch, size, start_byte, end_byte, total_read, sent,
                   honest, exact, opened, tlsvars>>

\* One turn of the segmented loop (download_sized, lines 228-266) from the
\* response to its request, and, when the loop goes on, the next request
\* (lines 225-228).
RangeReply ==
    /\ pc = "Transferring"
    /\ fetch = "ranged"
    /\ conn = "open"
    /\ closed' = DropChannel(closed)
    /\ UNCHANGED <<opened, tlsvars>>
    /\ \E resp \in RangeResponses(sent[Len(sent)], resource) :
       \E w \in WriteOutcomes(resp.body) :
        LET value == HeaderValue(resp.headers, H_CONTENT_RANGE)
            tokens == ContentRangeTokens(value)
            adv == Advance(tokens[1], tokens[2])
            fail(e) ==
                /\ UNCHANGED <<inner, start_byte, end_byte, total_read, sent,
                               sink, cause>>
                /\ outcomes' = Append(outcomes, Outcome("error", e, resp, <<>>, 0))
                /\ Finish(e)
        IN  /\ honest' = (honest /\ IsHonestReply(sent[Len(sent)], resp, resource))
            /\ exact' = (exact /\ IsExactReply(sent[Len(sent)], resp, resource))
            /\ IF ~AcceptedStatus(resp.status)
               THEN fail(BadResponse(resp.status, resp.msg))
               ELSE IF ~HasHeader(resp.headers, H_CONTENT_RANGE)
               THEN fail(BadResponse(resp.status, MissingHeaderMsg))
               ELSE IF Len(tokens) < 3
               THEN fail(BadResponse(resp.status, UnsupportedValueMsg(value)))
               ELSE IF overflow_checks /\ adv.overflow
               THEN /\ pc' = "Panicked"
                    /\ outcomes' = Append(outcomes,
                           Outcome("panic", NoResult, resp, tokens, 0))
                    /\ UNCHANGED <<inner, start_byte, end_byte, total_read,
                                   sent, sink, result, returned, cause>>
               ELSE /\ total_read' = adv.total_read
                    /\ start_byte' = adv.start_byte
                    /\ end_byte' = adv.end_byte
                    /\ sink' = Written(resp.body, w)
                    /\ cause' = (IF w = "ok" THEN cause ELSE "writer")
                    /\ IF w # "ok"
                       THEN /\ outcomes' = Append(outcomes,
                                   Outcome("error", FromIoError, resp, tokens,
                                           Appended(resp.body, w)))
                            /\ Finish(FromIoError)
                            /\ UNCHANGED <<inner, sent>>
                       ELSE /\ outcomes' = Append(outcomes,
                                   Outcome("accepted", NoResult, resp, tokens,
                                           resp.body.len))
                            /\ IF adv.total_read < size
                               THEN /\ Len(sent) < MaxRequests
                                    /\ inner' = RangeRequest(inner, adv.start_byte,
                                                             adv.end_byte, size)
                                    /\ sent' = Append(sent, inner')
                                    /\ UNCHANGED <<pc, result, returned>>
                               ELSE /\ Finish(OkResult)
                                    /\ UNCHANGED <<inner, sent>>
    /\ conn' = AfterReply
    /\ Frame
    /\ UNCHANGED <<fetch, size>>

Next ==
    Download \/ Connect \/ IoFailure \/ ProbeReply \/ WholeReply \/ RangeReply

Spec == Init /\ [][Next]_vars


(* ------------------------------ claims -------------------------------- *)

\* The probe response the invocation took, once there is one.
ProbeAnswered == Len(outcomes) >= 1 /\ outcomes[1].status # 0

ProbeResponse ==
    Response(outcomes[1].status, outcomes[1].msg, outcomes[1].headers,
             outcomes[1].body)

RECURSIVE BodyBytes(_)
BodyBytes(bodies) ==
    IF Len(bodies) = 0 THEN 0 ELSE Head(bodies).len + BodyBytes(Tail(bodies))

\* The bodies written are the bytes 0 .. T-1 of the resource, each write
\* starting where the one before it ended.
SinkIsResource ==
    /\ \A i \in 1..Len(sink) :
          /\ sink[i].kind = "content"
          /\ sink[i].len > 0
          /\ sink[i].from = BodyBytes(SubSeq(sink, 1, i - 1))
    /\ BodyBytes(sink) = resource

\* C1: when the probe classifies the resource as Sized(T) with
\* T <= MAX_BLOCK_SIZE (T = MAX_BLOCK_SIZE included), exactly one transfer
\* request follows the probe, and it is the request template unchanged:
\* the engine adds no Range header to it.
C1_SmallSizedOnePlainRequest ==
    (/\ ProbeAnswered
     /\ Classify(ProbeResponse).kind = "Sized"
     /\ Classify(ProbeResponse).size <= MAX_BLOCK_SIZE)
    => /\ fetch = "plain"
       /\ Len(sent) = 2
       /\ sent[2] = template
       /\ sent[2].headers = template.headers
       /\ (HasHeader(sent[2].headers, H_RANGE) => HasHeader(template.headers, H_RANGE))

C1_Witness ==
    /\ pc = "Complete"
    /\ fetch = "plain"
    /\ size = MAX_BLOCK_SIZE
    /\ Len(sent) = 2
    /\ ~HasHeader(sent[2].headers, H_RANGE)

\* C2: for a Sized(T) resource with T > MAX_BLOCK_SIZE and a server whose
\* every range reply is 206 with the true Content-Range of a span starting
\* at the requested start and exactly the bytes of that span, a successful
\* download leaves exactly the T bytes of the resource, in order, with no
\* gap, overlap or duplicate.
C2_SegmentedSinkIsResource ==
    (pc = "Complete" /\ fetch = "ranged" /\ honest)
    => /\ size = resource
       /\ SinkIsResource
       /\ BodyBytes(sink) = size

C2_Witness ==
    /\ pc = "Complete"
    /\ fetch = "ranged"
    /\ honest
    /\ size = 2500000
    /\ Len(sink) = 3

\* C3: for every response of the segmented loop whose Content-Range is
\* accepted, whatever the server sent, the tokens a, b, t satisfy
\* a <= b < t and b - a + 1 is the number of body bytes appended.
C3_AcceptedRangeMatchesBody ==
    \A i \in 1..Len(outcomes) :
        outcomes[i].kind = "accepted"
        => /\ outcomes[i].tokens[1] <= outcomes[i].tokens[2]
           /\ outcomes[i].tokens[2] < outcomes[i].tokens[3]
           /\ outcomes[i].tokens[2] - outcomes[i].tokens[1] + 1 = outcomes[i].appended

\* C4: in the transfer of a Sized resource (small or large) a response
\* whose status is neither 200 nor 206 ends the invocation with
\* BadResponse carrying that status and message, and none of its body is
\* written.
C4_BadStatusFailsSizedTransfer ==
    \A i \in 2..Len(outcomes) :
        (/\ fetch \in {"plain", "ranged"}
         /\ outcomes[i].status # 0
         /\ ~AcceptedStatus(outcomes[i].status))
        => /\ outcomes[i].kind = "error"
           /\ outcomes[i].err = BadResponse(outcomes[i].status, outcomes[i].msg)
           /\ outcomes[i].appended = 0
           /\ pc = "Failed"
           /\ result = outcomes[i].err

\* C5: in the segmented loop a response with an accepted status (206 or
\* 200) and no Content-Range header ends the invocation with BadResponse
\* carrying that status and a message that names the Content-Range header;
\* its body is not written and no further request is issued.
C5_MissingContentRangeFails ==
    \A i \in 2..Len(outcomes) :
        (/\ fetch = "ranged"
         /\ AcceptedStatus(outcomes[i].status)
         /\ ~HasHeader(outcomes[i].headers, H_CONTENT_RANGE))
        => /\ pc = "Failed"
           /\ result.kind = "BadResponse"
           /\ result.status = outcomes[i].status
           /\ \E k \in 1..Len(result.msg) : result.msg[k] = H_CONTENT_RANGE
           /\ outcomes[i].appended = 0
           /\ Len(sink) = i - 2
           /\ Len(sent) = i

C5_Witness ==
    /\ pc = "Failed"
    /\ fetch = "ranged"
    /\ Len(sent) = 3
    /\ Len(sink) = 1
    /\ outcomes[3].status = StatusPartialContent
    /\ outcomes[3].body.len > 0
    /\ result = BadResponse(StatusPartialContent, MissingHeaderMsg)

\* C6: for a Sized resource of T > MAX_BLOCK_SIZE bytes (T = 2,500,000)
\* and a server that returns exactly the span each Range header asks for,
\* clamped to the resource, a completed download has issued exactly
\* ceil(T / MAX_BLOCK_SIZE) range requests (3) and counted exactly T bytes.
C6_CeilBlocksRangeRequests ==
    (pc = "Complete" /\ fetch = "ranged" /\ exact)
    => /\ Len(sent) - 1 = (size + MAX_BLOCK_SIZE - 1) \div MAX_BLOCK_SIZE
       /\ total_read = size

\* C7: every range request of the segmented loop asks for at most
\* MAX_BLOCK_SIZE bytes: end - start + 1 <= MAX_BLOCK_SIZE for the start
\* and end written into its Range header.
C7_RangeSpanAtMostBlock ==
    \A i \in 2..Len(sent) :
        fetch = "ranged"
        => RequestedSpan(sent[i])[2] - RequestedSpan(sent[i])[1] + 1 <= MAX_BLOCK_SIZE

\* C8: a probe response with status 200, no Content-Length and
\* Transfer-Encoding: chunked classifies the resource Chunked; exactly one
\* transfer request follows, equal to the template (method, headers, body,
\* no Range added), and its body reaches the sink in a single write.
C8_ChunkedOneRequestOneWrite ==
    (/\ ProbeAnswered
     /\ outcomes[1].status = StatusOK
     /\ ~HasHeader(outcomes[1].headers, H_CONTENT_LENGTH)
     /\ HasHeader(outcomes[1].headers, H_TRANSFER_ENCODING)
     /\ HeaderValue(outcomes[1].headers, H_TRANSFER_ENCODING) = Txt_chunked)
    => /\ fetch = "chunked"
       /\ Len(sent) = 2
       /\ sent[2].method = template.method
       /\ sent[2].headers = template.headers
       /\ sent[2].body = template.body
       /\ Len(sink) <= 1
       /\ (pc = "Complete" => Len(outcomes) = 2 /\ sink = <<outcomes[2].body>>)

C8_Witness ==
    /\ pc = "Complete"
    /\ fetch = "chunked"
    /\ api = "download_to_file"
    /\ template.method = "POST"
    /\ Len(sink) = 1
    /\ sink[1].len = resource
    /\ resource > 0

\* C9: a probe response with any status other than 200 makes the
\* invocation fail with BadResponse carrying that status and message; no
\* further request is issued and nothing is written.
C9_ProbeBadStatusFails ==
    (ProbeAnswered /\ outcomes[1].status # StatusOK)
    => /\ pc = "Failed"
       /\ result = BadResponse(outcomes[1].status, outcomes[1].msg)
       /\ Len(sent) = 1
       /\ sink = <<>>

C9_Witness ==
    /\ pc = "Failed"
    /\ Len(sent) = 1
    /\ ProbeAnswered
    /\ result = BadResponse(404, MsgNotFound)

\* C10: no failure is retried or recovered: the request that failed is the
\* last request the invocation issued, the invocation has ended in Failed,
\* and what it returned is the error of that request.
C10_FailureIsFinal ==
    /\ Len(outcomes) <= Len(sent)
    /\ \A i \in 1..Len(outcomes) :
          outcomes[i].kind = "error"
          => /\ i = Len(sent)
             /\ i = Len(outcomes)
             /\ pc = "Failed"
             /\ result = outcomes[i].err
    /\ (pc = "Failed" => Len(outcomes) = Len(sent)
                         /\ outcomes[Len(outcomes)].kind = "error")

C10_Witness ==
    /\ pc = "Failed"
    /\ fetch = "ranged"
    /\ Len(sent) = 3
    /\ outcomes[2].kind = "accepted"
    /\ outcomes[3].kind = "error"
    /\ outcomes[3].status = 500

(* ------------------------------------------------------------------ *)
(* Failure in the middle of a segmented fetch                          *)
(* ------------------------------------------------------------------ *)

\* A segmented fetch failed after at least one window was accepted.
FailedAfterAccepted ==
    /\ pc = "Failed"
    /\ fetch = "ranged"
    /\ \E i \in 2..Len(outcomes) : outcomes[i].kind = "accepted"

\* C11: when a segmented fetch fails after earlier windows were accepted,
\* download() returns only the error and none of the fetched bytes, while
\* the sink passed to download_to_file() still holds, in order, the body of
\* every window accepted before the failure.
C11_FailureReturnsNoBytesSinkKeepsWindows ==
    FailedAfterAccepted
    => /\ returned = <<>>
       /\ result.kind # "Ok"
       /\ api = "download_to_file"
          => /\ Len(sink) >= Len(outcomes) - 2
             /\ \A i \in 2..Len(outcomes) :
                   outcomes[i].kind = "accepted" => sink[i - 1] = outcomes[i].body

C11_Witness ==
    /\ FailedAfterAccepted
    /\ api = "download"
    /\ Len(outcomes) = 3
    /\ returned = <<>>
    /\ Len(sink) = 1

\* C11 as stated: after such a failure the sink of download_to_file()
\* holds none of the bytes of the earlier windows.
C11_Original ==
    FailedAfterAccepted
    => /\ returned = <<>>
       /\ api = "download_to_file" => BodyBytes(sink) = 0

(* ------------------------------------------------------------------ *)
(* Channels                                                            *)
(* ------------------------------------------------------------------ *)

\* C12: requests of one invocation are sequential and never share a
\* channel: at most one channel is open at any moment, it belongs to the
\* latest request, every earlier channel is closed before the next request
\* is issued, and every request whose channel was set up opened exactly one
\* channel of its own (a request whose channel setup failed, or is not
\* done yet, has none).
C12_OneChannelPerRequest ==
    /\ opened - closed \in {0, 1}
    /\ (conn = "open") <=> (opened - closed = 1)
    /\ (conn = "none" /\ Len(sent) > 0) => (opened = Len(sent) - 1 /\ closed = opened)
    /\ (conn # "none") => opened = Len(sent)
    /\ (pc = "Complete") => (opened = Len(sent) /\ closed = Len(sent))

C12_Witness ==
    /\ pc = "Complete"
    /\ fetch = "ranged"
    /\ Len(sent) = 4
    /\ opened = 4
    /\ closed = 4

(* ------------------------------------------------------------------ *)
(* Config::tls_settings() called from several threads                  *)
(* ------------------------------------------------------------------ *)

\* A ClientRequest nobody downloads.
DownloadIdle ==
    /\ pc = "Init"
    /\ api = "none"
    /\ overflow_checks = FALSE
    /\ resource = 0
    /\ template = NewRequest("GET")
    /\ inner = template
    /\ fetch = "none"
    /\ size = 0
    /\ start_byte = 0
    /\ end_byte = 0
    /\ total_read = 0
    /\ sent = <<>>
    /\ outcomes = <<>>
    /\ sink = <<>>
    /\ result = NoResult
    /\ honest = TRUE
    /\ exact = TRUE
    /\ returned = <<>>
    /\ url = [scheme |-> Txt_HTTPS, host |-> "h", name_ok |-> TRUE]
    /\ secure = IsSecure(url)
    /\ conn = "none"
    /\ opened = 0
    /\ closed = 0
    /\ cause = "none"

CanStartInitUnlessComplete(state) == state # "complete"

\* OnceLock::get_or_init: the caller that finds the cell never used runs
\* the closure.
CanStartInit(state) == state = "uninit"

\* A thread in tls_settings() touches no request.
TlsFrame == UNCHANGED <<dlvars, built, json>>

\* config.rs, line 10: a thread enters tls_settings().
TlsCall(t) ==
    /\ TlsFrame
    /\ callers[t].pc = "idle"
    /\ callers[t].calls < MaxCalls
    /\ callers' = [callers EXCEPT ![t].pc = "calling", ![t].calls = @ + 1]
    /\ UNCHANGED tlsvars

\* get_or_init on an initialised cell, then .clone() (lines 11-22).
TlsGet(t) ==
    /\ TlsFrame
    /\ callers[t].pc \in {"calling", "waiting"}
    /\ tls_state = "complete"
    /\ callers' = [callers EXCEPT ![t].pc = "idle", ![t].got = Append(@, tls_cell)]
    /\ UNCHANGED tlsvars

\* get_or_init: this caller is the one to run the closure.
TlsStart(t) ==
    /\ TlsFrame
    /\ callers[t].pc = "calling"
    /\ CanStartInit(tls_state)
    /\ tls_state' = "running"
    /\ callers' = [callers EXCEPT ![t].pc = "building"]
    /\ UNCHANGED <<tls_builds, tls_cell>>

\* get_or_init: another caller runs the closure; this one blocks.
TlsWait(t) ==
    /\ TlsFrame
    /\ callers[t].pc = "calling"
    /\ tls_state = "running"
    /\ callers' = [callers EXCEPT ![t].pc = "waiting"]
    /\ UNCHANGED tlsvars

\* The closure (lines 12-21) returns: the configuration it built is stored
\* in the cell and the caller gets a clone of the Arc.
TlsBuilt(t) ==
    /\ TlsFrame
    /\ callers[t].pc = "building"
    /\ tls_builds' = tls_builds + 1
    /\ tls_cell' = tls_builds + 1
    /\ tls_state' = "complete"
    /\ callers' = [callers EXCEPT ![t].pc = "idle", ![t].got = Append(@, tls_cell')]

InitTls ==
    /\ DownloadIdle
    /\ BuildIdle
    /\ JsonIdle
    /\ TlsUninit
    /\ callers = [t \in Callers |-> CallerIdle]

NextTls ==
    \E t \in Callers :
       TlsCall(t) \/ TlsGet(t) \/ TlsStart(t) \/ TlsWait(t) \/ TlsBuilt(t)

SpecTls == InitTls /\ [][NextTls]_vars

\* The configuration was built at most once, and every call that has
\* returned got the one object the cell holds.
TlsBuiltOnce ==
    /\ tls_builds <= 1
    /\ (tls_state = "complete") <=> (tls_builds = 1)
    /\ \A t \in Callers :
          \A i \in 1..Len(callers[t].got) :
             /\ tls_state = "complete"
             /\ callers[t].got[i] = tls_cell
             /\ tls_cell = 1

\* Once initialised, the cell and what it holds never change.
TlsReadOnly ==
    (tls_state = "complete") => UNCHANGED <<tls_state, tls_builds, tls_cell>>

\* C13: however the calls of any number of threads to
\* Config::tls_settings() interleave, the configuration is built exactly
\* once, every call returns that same object, and the object is never
\* replaced after initialisation.
C13_TlsConfigBuiltOnce == []TlsBuiltOnce /\ [][TlsReadOnly]_vars

C13_Witness ==
    /\ tls_builds = 1
    /\ \A t \in Callers : callers[t].calls = MaxCalls /\ Len(callers[t].got) = MaxCalls

(* ------------------------------------------------------------------ *)
(* The states of an invocation                                         *)
(* ------------------------------------------------------------------ *)

\* Where an invocation is, against the requests it has issued and the
\* replies it has dealt with.
ProbeFirstAndOnce ==
    /\ pc \in {"Init", "Probing", "Transferring", "Complete", "Failed", "Panicked"}
    /\ (pc = "Init") <=> (sent = <<>>)
    /\ (pc = "Probing") => (Len(sent) = 1 /\ outcomes = <<>>)
    /\ (pc = "Transferring") => (Len(sent) >= 2 /\ Len(outcomes) = Len(sent) - 1)
    /\ (pc = "Complete") => (Len(sent) >= 2 /\ Len(outcomes) = Len(sent))
    /\ (pc = "Failed") => (Len(sent) >= 1 /\ Len(outcomes) = Len(sent))
    /\ Len(sent) >= 1
       => /\ sent[1] = ProbeRequest(template)
          /\ sent[1].method = "HEAD"
    /\ Len(sent) >= 2
       => /\ outcomes[1].kind = "classified"
          /\ fetch \in {"plain", "ranged", "chunked"}
          /\ \A i \in 2..Len(sent) :
                /\ sent[i].method = template.method
                /\ sent[i] # sent[1]

\* The steps an invocation may take.
StatesInOrder ==
    /\ pc' # pc
       => <<pc, pc'>> \in { <<"Init", "Probing">>,
                            <<"Probing", "Transferring">>,
                            <<"Probing", "Failed">>,
                            <<"Transferring", "Complete">>,
                            <<"Transferring", "Failed">>,
                            <<"Transferring", "Panicked">> }
    /\ pc \in {"Complete", "Failed", "Panicked"} => (pc' = pc /\ sent' = sent)
    /\ \/ sent' = sent
       \/ /\ Len(sent') = Len(sent) + 1
          /\ SubSeq(sent', 1, Len(sent)) = sent
          /\ pc' \in {"Probing", "Transferring"}

\* C14: an invocation goes Init -> Probing -> Transferring -> Complete, and
\* to Failed only from Probing or Transferring. Its first request is the
\* one probe (HEAD, built from the template) and every later request is a
\* transfer request, issued only after the probe was classified; after
\* Complete or Failed no request is issued. (The abort of a build with
\* overflow checks on an arithmetic overflow in the loop ends the process
\* from Transferring; it issues no request either.)
C14_ProbeThenTransfer == []ProbeFirstAndOnce /\ [][StatesInOrder]_vars

C14_Witness ==
    /\ pc = "Complete"
    /\ fetch = "ranged"
    /\ Len(sent) = 4
    /\ sent[1].method = "HEAD"
    /\ sent[4].method = "POST"

(* ------------------------------------------------------------------ *)
(* Client: the constructors and the builder calls                      *)
(* ------------------------------------------------------------------ *)

H_CONTENT_TYPE == "Content-Type"
MINE_URLENCODED_FORM == <<"f", "o", "r", "m">>

\* The texts a caller passes to a constructor: the URLs of a download, an
\* upper-case scheme, and a text HttpUrl::try_from rejects.
BuildUrls ==
    { [scheme |-> u.scheme, host |-> u.host, name_ok |-> u.name_ok, parse_ok |-> TRUE]
        : u \in Urls }
    \cup { [scheme |-> <<>>, host |-> "", name_ok |-> FALSE, parse_ok |-> FALSE] }

Constructors ==
    {"post", "get", "head", "put", "connect", "trace", "patch", "options"}

\* The method each constructor passes to ClientRequest::new (lines 59-94).
ConstructorMethod(ctor) ==
    CASE ctor = "post" -> "POST"
      [] ctor = "get" -> "GET"
      [] ctor = "head" -> "HEAD"
      [] ctor = "put" -> "PUT"
      [] ctor = "connect" -> "CONNECT"
      [] ctor = "trace" -> "TRACE"
      [] ctor = "patch" -> "TRACE"
      [] ctor = "options" -> "TRACE"

\* The method the doc comment of each constructor names (lines 56-91).
DocumentedMethod(ctor) ==
    CASE ctor = "post" -> "POST"
      [] ctor = "get" -> "GET"
      [] ctor = "head" -> "HEAD"
      [] ctor = "put" -> "PUT"
      [] ctor = "connect" -> "CONNECT"
      [] ctor = "trace" -> "TRACE"
      [] ctor = "patch" -> "PATCH"
      [] ctor = "options" -> "OPTIONS"

\* The constructors that return ClientRequest<Body>.
HasBodyType(ctor) == ctor \in {"post", "put", "patch"}

\* The error a constructor maps a rejected URL to (line 58; lines 63-93).
UrlError(ctor) ==
    [kind |-> IF ctor = "post" THEN "ParseError" ELSE "InvalidUrl",
     status |-> 0, msg |-> <<"bad url">>]

\* Client::<ctor>(url)
ClientNew(ctor) ==
    /\ built.state = "none"
    /\ \E u \in BuildUrls :
          built' = IF u.parse_ok
                   THEN [state |-> "request", ctor |-> ctor, secure |-> IsSecure(u),
                         steps |-> 0, req |-> NewRequest(ConstructorMethod(ctor)),
                         err |-> NoResult, probe |-> NewRequest("none"),
                         forms |-> <<>>]
                   ELSE [state |-> "error", ctor |-> ctor, secure |-> FALSE,
                         steps |-> 0, req |-> NewRequest("none"),
                         err |-> UrlError(ctor), probe |-> NewRequest("none"),
                         forms |-> <<>>]
    /\ UNCHANGED <<dlvars, tlsvars, callers, json>>

\* A builder call on the request built so far.
BuilderStep(req) ==
    /\ built.state = "request"
    /\ built.steps < MaxBuildSteps
    /\ built' = [built EXCEPT !.req = req, !.steps = @ + 1]
    /\ UNCHANGED <<dlvars, tlsvars, callers, json>>

\* ClientRequest::header (lines 161-164)
RequestHeader ==
    \E n \in {"Accept", H_CONTENT_TYPE} :
       BuilderStep(WithHeader(built.req, n, Txt_any))

\* ClientRequest<Body>::body (lines 119-122)
RequestBody ==
    /\ HasBodyType(built.ctor)
    /\ BuilderStep(WithBody(built.req, <<"b">>))

FormDataWithSeparator(req, name, value) ==
    WithBody(WithHeader(req, H_CONTENT_TYPE, MINE_URLENCODED_FORM),
             <<"&">> \o name \o <<"=">> \o value)

\* ClientRequest<Body>::form_data (lines 127-135)
FormData(req, name, value) ==
    LET r == WithHeader(req, H_CONTENT_TYPE, MINE_URLENCODED_FORM)
    IN  IF r.body = <<>>
        THEN WithBody(r, name \o <<"=">> \o value)
        ELSE WithBody(r, <<"&">> \o name \o <<"=">> \o value)

RequestFormData ==
    /\ HasBodyType(built.ctor)
    /\ built.state = "request"
    /\ built.steps < MaxBuildSteps
    /\ \E nv \in {<<(<<"b">>), (<<"1">>)>>, <<Txt_abc, (<<"2">>)>>} :
          built' = [built EXCEPT !.req = FormData(built.req, nv[1], nv[2]),
                                 !.steps = @ + 1,
                                 !.forms = Append(@, nv)]
    /\ UNCHANGED <<dlvars, tlsvars, callers, json>>

\* request_size, lines 317-323, on the request built: the probe is made
\* from &self.
RequestSize ==
    /\ built.state = "request"
    /\ built' = [built EXCEPT !.state = "probed", !.probe = ProbeRequest(built.req)]
    /\ UNCHANGED <<dlvars, tlsvars, callers, json>>

InitBuild ==
    /\ DownloadIdle
    /\ TlsUninit
    /\ callers = [t \in Callers |-> CallerIdle]
    /\ BuildIdle
    /\ JsonIdle

NextBuild ==
    \/ ClientNew("post") \/ ClientNew("get") \/ ClientNew("head")
    \/ ClientNew("put") \/ ClientNew("connect") \/ ClientNew("trace")
    \/ ClientNew("patch") \/ ClientNew("options")
    \/ RequestHeader \/ RequestBody \/ RequestFormData \/ RequestSize

SpecBuild == InitBuild /\ [][NextBuild]_vars

\* C15: the request each constructor of Client creates has the HTTP
\* method the constructor is named and documented for.
C15_ConstructorMethodAsNamed ==
    built.state = "request" => built.req.method = DocumentedMethod(built.ctor)

(* ------------------------------------------------------------------ *)
(* Classification of the probe response                                *)
(* ------------------------------------------------------------------ *)

\* The probe was answered 200 with the Content-Length of the resource.
ProbeReportsLength ==
    /\ ProbeAnswered
    /\ outcomes[1].status = StatusOK
    /\ HasHeader(outcomes[1].headers, H_CONTENT_LENGTH)
    /\ HeaderValue(outcomes[1].headers, H_CONTENT_LENGTH) = FormatUsize(resource)

\* C16: a probe response 200 whose Content-Length is the decimal text of
\* n is classified Sized(n), for n = 0 too, and also when the response
\* carries Transfer-Encoding: chunked next to it.
C16_ContentLengthGivesSized ==
    ProbeReportsLength
    => /\ outcomes[1].kind = "classified"
       /\ Classify(ProbeResponse).kind = "Sized"
       /\ Classify(ProbeResponse).size = resource
       /\ size = resource
       /\ fetch = (IF resource > MAX_BLOCK_SIZE THEN "ranged" ELSE "plain")

C16_Witness ==
    /\ ProbeReportsLength
    /\ HasHeader(outcomes[1].headers, H_TRANSFER_ENCODING)
    /\ resource = 0
    /\ size = 0
    /\ fetch = "plain"

\* C17: a probe response 200 without Content-Length is classified Chunked
\* whenever its Transfer-Encoding value contains "chunk" in any letter
\* case.
C17_ChunkInAnyCaseGivesChunked ==
    ( /\ ProbeAnswered
      /\ outcomes[1].status = StatusOK
      /\ ~HasHeader(outcomes[1].headers, H_CONTENT_LENGTH)
      /\ HasHeader(outcomes[1].headers, H_TRANSFER_ENCODING)
      /\ Contains(LowerCase(HeaderValue(outcomes[1].headers, H_TRANSFER_ENCODING)),
                  ChunkWord) )
    => /\ outcomes[1].kind = "classified"
       /\ fetch = "chunked"

(* ------------------------------------------------------------------ *)
(* Errors of the transport                                             *)
(* ------------------------------------------------------------------ *)

C19_IoFailureIsIoError ==
    cause = "io_error"
    => /\ pc = "Failed"
       /\ result.kind = "IoError"
       /\ result.kind \notin {"ParseError", "ConnectionError", "InvalidUrl", "BadResponse"}

(* ------------------------------------------------------------------ *)
(* JsonParser (src/json/parser.rs)                                     *)
(* ------------------------------------------------------------------ *)

\* A text is a tuple of characters and a position in it is the iterator:
\* the character peek() shows, "" for None.
Peek(text, pos) == IF pos <= Len(text) THEN text[pos] ELSE ""

\* The iterator after n calls of next().
Skip(text, pos, n) == Min(pos + n, Len(text) + 1)

\* Ok(value) and Err(message), with the position the iterator is left at.
JOk(t, v, pos) == [ok |-> TRUE, t |-> t, v |-> v, pos |-> pos]
JErr(msg, pos) == [ok |-> FALSE, t |-> "Err", v |-> msg, pos |-> pos]

\* skip_whitespace, lines 191-203
RECURSIVE skip_whitespace(_, _)
skip_whitespace(text, pos) ==
    IF IsSpace(Peek(text, pos)) THEN skip_whitespace(text, pos + 1) ELSE pos

\* parse_string, lines 52-73: the loop. On a backslash data.next() yields
\* the backslash peek() showed, which is pushed, and the next() of line 72
\* drops the character after it.
RECURSIVE StringLoop(_, _, _)
StringLoop(text, pos, acc) ==
    LET c == Peek(text, pos)
    IN  IF c = "" THEN JErr("Incomplete String value", pos)
        ELSE IF c = "\"" THEN JOk("String", acc, Skip(text, pos, 1))
        ELSE IF c = "\\" THEN StringLoop(text, Skip(text, pos, 2), Append(acc, "\\"))
        ELSE StringLoop(text, pos + 1, Append(acc, c))

\* parse_string, lines 46-76
parse_string(text, pos) == StringLoop(text, Skip(text, pos, 1), <<>>)

\* parse_number, line 83: the characters collected.
IsNumberChar(c) == c \in {"-", ".", "e", "E"} \/ IsDigit(c)

RECURSIVE NumberEnd(_, _)
NumberEnd(text, pos) ==
    IF IsNumberChar(Peek(text, pos)) THEN NumberEnd(text, pos + 1) ELSE pos

RECURSIVE DigitsEnd(_, _)
DigitsEnd(s, i) ==
    IF i <= Len(s) /\ IsDigit(s[i]) THEN DigitsEnd(s, i + 1) ELSE i

\* str::parse::<isize>: an optional sign and at least one digit, nothing
\* else (values beyond UsizeMax do not occur in the texts checked).
ParseIsize(s) ==
    LET i == IF Len(s) > 0 /\ s[1] \in {"+", "-"} THEN 2 ELSE 1
        n == ParseDigits(s, i, 0)
    IN  IF i > Len(s) \/ n = -1 THEN [ok |-> FALSE, n |-> 0]
        ELSE [ok |-> TRUE, n |-> IF s[1] = "-" THEN 0 - n ELSE n]

\* str::parse::<f64> on number characters: sign, digits, fraction,
\* exponent; at least one digit before the exponent.
IsF64Text(s) ==
    LET i == IF Len(s) > 0 /\ s[1] \in {"+", "-"} THEN 2 ELSE 1
        a == DigitsEnd(s, i)
        dot == a <= Len(s) /\ s[a] = "."
        b == IF dot THEN DigitsEnd(s, a + 1) ELSE a
        digits == (a - i) + (IF dot THEN b - a - 1 ELSE 0)
        x == IF b + 1 <= Len(s) /\ s[b + 1] \in {"+", "-"} THEN b + 2 ELSE b + 1
        d == DigitsEnd(s, x)
    IN  /\ digits >= 1
        /\ \/ b > Len(s)
           \/ (s[b] \in {"e", "E"} /\ d > x /\ d > Len(s))

\* parse_number, lines 77-101
parse_number(text, pos) ==
    LET end == NumberEnd(text, pos)
        number_data == SubSeq(text, pos, end - 1)
    IN  IF \E i \in 1..Len(number_data) : number_data[i] = "."
        THEN IF IsF64Text(number_data)
             THEN JOk("Float", number_data, end)
             ELSE JErr("Could not parse number value", end)
        ELSE IF ParseIsize(number_data).ok
             THEN JOk("Integer", ParseIsize(number_data).n, end)
             ELSE JErr("Could not parse number value", end)

\* parse_boolean, lines 102-111: four characters are taken, whatever the
\* literal, and parsed as a bool.
parse_boolean(text, pos) ==
    LET end == Skip(text, pos, 4)
        boolean_data == SubSeq(text, pos, end - 1)
    IN  IF boolean_data = <<"t", "r", "u", "e">> THEN JOk("Boolean", TRUE, end)
        ELSE IF boolean_data = <<"f", "a", "l", "s", "e">> THEN JOk("Boolean", FALSE, end)
        ELSE JErr("provided string was not true or false", end)

\* parse_null, lines 140-150
parse_null(text, pos) ==
    LET end == Skip(text, pos, 4)
        null_data == SubSeq(text, pos, end - 1)
    IN  IF null_data = <<"n", "u", "l", "l">> THEN JOk("Null", <<>>, end)
        ELSE JErr("Cannot build JSON value", end)

\* The JsonValue of an Ok result.
JsonValue(r) == [t |-> r.t, v |-> r.v]

\* HashMap::insert: the entry of the key is replaced.
MapInsert(map, key, value) ==
    SelectSeq(map, LAMBDA e : e.k # key) \o <<[k |-> key, v |-> value]>>

IsAnyKey(r) == TRUE

\* parse_object, lines 172-175: only JsonValue::String is a key.
IsStringKey(r) == r.t = "String"

RECURSIVE parse_item(_, _)
RECURSIVE ArrayLoop(_, _, _)
RECURSIVE ObjectLoop(_, _, _)

\* parse_array, lines 120-137: the loop.
ArrayLoop(text, pos, array) ==
    LET p == skip_whitespace(text, pos)
        c == Peek(text, p)
        value == parse_item(text, p)
    IN  IF c = "]" THEN JOk("Array", array, p + 1)
        ELSE IF c = "," THEN ArrayLoop(text, skip_whitespace(text, p + 1), array)
        ELSE IF c = "" THEN JErr("Could not parse complete array", p)
        ELSE IF ~value.ok THEN value
        ELSE ArrayLoop(text, value.pos, Append(array, JsonValue(value)))

\* parse_array, lines 112-139
parse_array(text, pos) == ArrayLoop(text, Skip(text, pos, 1), <<>>)

\* parse_object, lines 159-188: the loop.
ObjectLoop(text, pos, map) ==
    LET p == skip_whitespace(text, pos)
        c == Peek(text, p)
        key == parse_item(text, skip_whitespace(text, p))
        colon == skip_whitespace(text, key.pos)
        value == parse_item(text, skip_whitespace(text, Skip(text, colon, 1)))
    IN  IF c = "}" THEN JOk("Object", map, p + 1)
        ELSE IF c = "," THEN ObjectLoop(text, skip_whitespace(text, p + 1), map)
        ELSE IF c = "" THEN JErr("Could not parse complete object", p)
        ELSE IF ~key.ok THEN key
        ELSE IF ~IsStringKey(key) THEN JErr("Expected String key for object.", key.pos)
        ELSE IF Peek(text, colon) # ":"
        THEN JErr("Incomplete object. Expected : after key", Skip(text, colon, 1))
        ELSE IF ~value.ok THEN value
        ELSE ObjectLoop(text, value.pos, MapInsert(map, key.v, JsonValue(value)))

\* parse_object, lines 151-190
parse_object(text, pos) == ObjectLoop(text, Skip(text, pos, 1), <<>>)

\* parse_item, lines 24-44
parse_item(text, pos) ==
    LET p == skip_whitespace(text, pos)
        c == Peek(text, p)
    IN  IF c = "" THEN JErr("Cannot parse empty object.", p)
        ELSE IF c = "\"" THEN parse_string(text, p)
        ELSE IF IsDigit(c) \/ c = "-" THEN parse_number(text, p)
        ELSE IF c \in {"t", "f"} THEN parse_boolean(text, p)
        ELSE IF c = "[" THEN parse_array(text, p)
        ELSE IF c = "n" THEN parse_null(text, p)
        ELSE IF c = "{" THEN parse_object(text, p)
        ELSE JErr("Unexpected character", p)

\* JsonParser::parse_json, lines 21-23
parse_json(text) == parse_item(text, 1)

\* Object texts up to the place where a member key is expected: after the
\* opening brace or after a member, at top level, nested, or in an array.
ObjectPrefixes ==
    { <<"{">>,
      <<"{", " ">>,
      <<"{", "\"", "a", "\"", ":", "1", ",">>,
      <<"{", "\"", "a", "\"", ":", "1", " ">>,
      <<"{", "\"", "a", "\"", ":", "{">>,
      <<"[", "{">>,
      <<"{", "\"", "a", "\\", "\"", "\"", ":", "[", "1", "]", ",">> }

\* What stands where the key is expected and is no double-quoted string:
\* a bare word, a number, a literal, an array, an object, a colon; with the
\* two texts of the test invalid_json (tests.rs, lines 55 and 59).
BadKeyTexts ==
    { <<"k">>,
      <<"k", "e", "y", "\"", ":", " ", "}">>,
      <<"k", "e", "y", ":", " ", "2", "5", " ", "}">>,
      <<"1">>,
      <<"-", "1">>,
      <<"t", "r", "u", "e">>,
      <<"n", "u", "l", "l">>,
      <<"[", "1", "]">>,
      <<"{", "}">>,
      <<":">> }

\* The characters typed after it.
TailChars == {"\"", ":", "1", "}", " "}

\* A caller writes an object text whose next member key is no string.
JsonBegin ==
    /\ json.text = <<>>
    /\ \E p \in ObjectPrefixes, k \in BadKeyTexts :
          json' = [json EXCEPT !.text = p \o k]
    /\ UNCHANGED <<dlvars, tlsvars, callers, built>>

\* The caller writes one more character.
JsonType ==
    /\ json.text # <<>>
    /\ json.out = NotParsed
    /\ json.typed < MaxTail
    /\ \E c \in TailChars :
          json' = [json EXCEPT !.text = Append(@, c), !.typed = @ + 1]
    /\ UNCHANGED <<dlvars, tlsvars, callers, built>>

\* JsonParser::parse_json(text)
JsonParse ==
    /\ json.text # <<>>
    /\ json.out = NotParsed
    /\ json' = [json EXCEPT !.out = parse_json(json.text)]
    /\ UNCHANGED <<dlvars, tlsvars, callers, built>>

InitJson ==
    /\ DownloadIdle
    /\ TlsUninit
    /\ callers = [t \in Callers |-> CallerIdle]
    /\ BuildIdle
    /\ JsonIdle

NextJson == JsonBegin \/ JsonType \/ JsonParse

SpecJson == InitJson /\ [][NextJson]_vars

\* C20: parse_json returns an error, never a value, for every object text
\* in which a member key is not a double-quoted string.
C20_NonStringKeyIsError ==
    json.out # NotParsed => (~json.out.ok /\ json.out.t = "Err")

C20_Witness ==
    /\ json.text = <<"{", "k", "e", "y", ":", " ", "2", "5", " ", "}">>
    /\ json.out # NotParsed
    /\ json.out.t = "Err"

(* ------------------------------------------------------------------ *)
(* The window of the segmented loop                                    *)
(* ------------------------------------------------------------------ *)

\* C21: at every iteration of the segmented loop, and after its final
\* advance, the window satisfies start <= end <= total.
C21_WindowWithinTotal ==
    (fetch = "ranged" /\ pc # "Panicked")
    => (start_byte <= end_byte /\ end_byte <= size)

\* C22: from one iteration of the segmented loop to the next the start of
\* the window never decreases, and its end never decreases and never
\* exceeds total.
C22_WindowMonotone ==
    fetch = "ranged"
    => \A i \in 2..Len(sent) :
          /\ RequestedSpan(sent[i])[2] <= size
          /\ i < Len(sent)
             => /\ RequestedSpan(sent[i])[1] <= RequestedSpan(sent[i + 1])[1]
                /\ RequestedSpan(sent[i])[2] <= RequestedSpan(sent[i + 1])[2]

(* ------------------------------------------------------------------ *)
(* Termination                                                         *)
(* ------------------------------------------------------------------ *)

\* The invocation runs on the calling thread and every request it issues
\* receives a response or an error: a step that can be taken is taken.
SpecLive == Spec /\ WF_vars(Next)

\* C23: every download invocation eventually reaches Complete or Failed:
\* the segmented loop neither runs forever nor crashes on an arithmetic
\* underflow or overflow, whatever Content-Range values the server reports.
C23_EventuallyCompleteOrFailed == <>(pc \in {"Complete", "Failed"})

(* ------------------------------------------------------------------ *)
(* The requests of the segmented loop                                  *)
(* ------------------------------------------------------------------ *)

RECURSIVE SumOfSpans(_, _)
SumOfSpans(log, i) ==
    IF i > Len(log) THEN 0
    ELSE (IF log[i].kind = "accepted" THEN log[i].tokens[2] - log[i].tokens[1] + 1 ELSE 0)
         + SumOfSpans(log, i + 1)

\* Each range request carries one Range header, bytes=<start>-<end>/<total>,
\* whose start is 0 at first and then the range_end of the previous reply
\* plus 1.
RangeHeaderFollowsReply ==
    \A i \in 2..Len(sent) :
       LET span == RequestedSpan(sent[i])
           start == IF i = 2 THEN 0 ELSE outcomes[i - 1].tokens[2] + 1
       IN  /\ Cardinality({j \in 1..Len(sent[i].headers) :
                              sent[i].headers[j].name = H_RANGE}) = 1
           /\ Len(span) = 3
           /\ span[1] = start
           /\ span[3] = size
           /\ HeaderValue(sent[i].headers, H_RANGE) = RangeValue(start, span[2], size)

\* C24: in the segmented loop each request carries exactly one Range
\* header bytes=<start>-<end>/<total>, start being 0 for the first request
\* and the previous reply's range_end plus 1 afterwards, and total_read is
\* the sum of range_end - range_start + 1 over the replies accepted.
C24_RangeHeaderAndTotalRead ==
    (fetch = "ranged" /\ pc \in {"Transferring", "Complete"})
    => /\ RangeHeaderFollowsReply
       /\ total_read = SumOfSpans(outcomes, 2)

(* ------------------------------------------------------------------ *)
(* Writes to the sink of download_to_file                              *)
(* ------------------------------------------------------------------ *)

\* C25: on the segmented path download_to_file() writes the body of each
\* accepted window to the sink before the request for the next window is
\* sent, one write per window in request order; on the chunked path it
\* writes once, the whole body, after the response has been received.
C25_WritesInRequestOrder ==
    api = "download_to_file"
    => /\ fetch = "ranged"
          => /\ \A i \in 2..Len(outcomes) :
                   outcomes[i].kind = "accepted"
                   => (Len(sink) >= i - 1 /\ sink[i - 1] = outcomes[i].body)
             /\ Len(sink) >= Len(sent) - 2
             /\ Len(sink) <= Len(outcomes) - 1
       /\ fetch = "chunked"
          => /\ Len(sink) <= 1
             /\ (Len(outcomes) < 2 => sink = <<>>)
             /\ (pc = "Complete" => sink = <<outcomes[2].body>>)

C25_Witness ==
    /\ api = "download_to_file"
    /\ fetch = "ranged"
    /\ pc = "Transferring"
    /\ Len(sent) = 4
    /\ conn = "none"
    /\ Len(sink) = 2
    /\ sink[1] = outcomes[2].body
    /\ sink[2] = outcomes[3].body

(* ------------------------------------------------------------------ *)
(* The probe against the template                                      *)
(* ------------------------------------------------------------------ *)

\* The probe is a HEAD copy of the template: its path, each of its
\* headers with the same value, no body.
ProbeIsHeadCopy ==
    built.state = "probed"
    => /\ built.probe.method = "HEAD"
       /\ built.probe.path = built.req.path
       /\ built.probe.body = <<>>
       /\ \A j \in 1..Len(built.req.headers) :
             /\ HasHeader(built.probe.headers, built.req.headers[j].name)
             /\ HeaderValue(built.probe.headers, built.req.headers[j].name)
                  = built.req.headers[j].value

\* Building the probe leaves the template as it was.
TemplateKept ==
    (built.state = "request" /\ built'.state = "probed") => built'.req = built.req

\* C26: for every template (any method, caller-added headers, with or
\* without a body) the probe has method HEAD, the template's path, every
\* header of the template with the same value and no body, and building it
\* leaves the template unchanged for the transfer request that follows.
C26_ProbeIsCopyTemplateKept == []ProbeIsHeadCopy /\ [][TemplateKept]_vars

C26_Witness ==
    /\ built.state = "probed"
    /\ built.ctor = "put"
    /\ built.req.method = "PUT"
    /\ built.req.body # <<>>
    /\ Len(built.req.headers) = 4
    /\ built.probe.method = "HEAD"
    /\ Len(built.probe.headers) = 4

\* The probe was answered 200 with a Content-Length that is no number.
ProbeLengthNotANumber ==
    /\ ProbeAnswered
    /\ outcomes[1].status = StatusOK
    /\ HasHeader(outcomes[1].headers, H_CONTENT_LENGTH)
    /\ LET v == HeaderValue(outcomes[1].headers, H_CONTENT_LENGTH)
       IN  Len(v) = 0 \/ \E i \in 1..Len(v) : ~IsDigit(v[i])

\* C27: a probe response 200 whose Content-Length does not parse as a
\* non-negative integer makes the download fail with ParseError without
\* any transfer request, also when Transfer-Encoding: chunked is present.
C27_BadContentLengthIsParseError ==
    ProbeLengthNotANumber
    => /\ pc = "Failed"
       /\ result.kind = "ParseError"
       /\ result = FromHttpParseError
       /\ Len(sent) = 1
       /\ fetch = "none"
       /\ sink = <<>>

C27_Witness ==
    /\ ProbeLengthNotANumber
    /\ HasHeader(outcomes[1].headers, H_TRANSFER_ENCODING)
    /\ HeaderValue(outcomes[1].headers, H_TRANSFER_ENCODING) = Txt_chunked
    /\ pc = "Failed"
    /\ result.kind = "ParseError"

(* ------------------------------------------------------------------ *)
(* form_data                                                           *)
(* ------------------------------------------------------------------ *)

\* name_1=value_1&name_2=value_2&...&name_k=value_k
RECURSIVE JoinForms(_, _)
JoinForms(forms, i) ==
    IF i > Len(forms) THEN <<>>
    ELSE (IF i = 1 THEN <<>> ELSE <<"&">>)
         \o forms[i][1] \o <<"=">> \o forms[i][2] \o JoinForms(forms, i + 1)

\* Only form_data was called, at least once, on the request as constructed.
OnlyFormData ==
    /\ built.state \in {"request", "probed"}
    /\ built.steps >= 1
    /\ Len(built.forms) = built.steps

FormBodyJoined ==
    OnlyFormData
    => /\ built.req.body = JoinForms(built.forms, 1)
       /\ Cardinality({j \in 1..Len(built.req.headers) :
                          built.req.headers[j].name = H_CONTENT_TYPE}) = 1
       /\ HeaderValue(built.req.headers, H_CONTENT_TYPE) = MINE_URLENCODED_FORM

\* A form_data call on a body that is not empty appends &name=value.
FormDataAppends ==
    (Len(built'.forms) = Len(built.forms) + 1 /\ built.req.body # <<>>)
    => LET nv == built'.forms[Len(built'.forms)]
       IN  built'.req.body = built.req.body \o <<"&">> \o nv[1] \o <<"=">> \o nv[2]

\* C28: after any sequence of form_data calls on a request whose body
\* starts empty the body is name_1=value_1&...&name_k=value_k in call
\* order and the request has one Content-Type header, the form-urlencoded
\* media type; a call on a non-empty body appends &name=value.
C28_FormDataJoinsPairs == []FormBodyJoined /\ [][FormDataAppends]_vars

C28_Witness ==
    /\ OnlyFormData
    /\ Len(built.forms) = 3
    /\ built.forms[1] # built.forms[2]
    /\ built.req.body = JoinForms(built.forms, 1)
    /\ Len(built.req.body) > 10


\* ---------------------------------------------------------------------------
\* C29: the transport kind of a download is fixed when it is built and is
\* Secure exactly when the URL scheme equals "https" ignoring case; every
\* channel of an https download went through the TLS settings and the TLS
\* handshake set-up, and a plaintext download never initialises or reads the
\* TLS settings.
\* ---------------------------------------------------------------------------
TransportFollowsScheme ==
    /\ secure <=> (LowerCase(url.scheme) = Txt_https)
    /\ (secure /\ opened > 0) =>
            /\ tls_state = "complete"
            /\ tls_builds = 1
    /\ ~secure =>
            /\ tls_state = "uninit"
            /\ tls_builds = 0
            /\ tls_cell = 0
            /\ cause \notin {"invalid_name", "tls_error"}

TransportKept == secure' = secure /\ url' = url

Txt_true == <<"t", "r", "u", "e">>
Txt_false == <<"f", "a", "l", "s", "e">>
Txt_null == <<"n", "u", "l", "l">>

\* The literal texts of JSON.
Literals == {Txt_true, Txt_false, Txt_null}

\* What stands before a literal: nothing or white space (top level), the
\* opening of an array, the opening of an object up to the colon of a member.
\* at is the place of the literal among the elements or the members.
LiteralOpenings ==
    { [kind |-> "top", at |-> 0, text |-> <<>>],
      [kind |-> "top", at |-> 0, text |-> <<" ">>],
      [kind |-> "array", at |-> 1, text |-> <<"[">>],
      [kind |-> "array", at |-> 1, text |-> <<"[", " ">>],
      [kind |-> "array", at |-> 2, text |-> <<"[", "1", ",">>],
      [kind |-> "array", at |-> 2, text |-> <<"[", "n", "u", "l", "l", ",", " ">>],
      [kind |-> "member", at |-> 1, text |-> <<"{", "\"", "a", "\"", ":">>],
      [kind |-> "member", at |-> 1, text |-> <<"{", " ", "\"", "a", "\"", " ", ":", " ">>],
      [kind |-> "member", at |-> 2,
       text |-> <<"{", "\"", "a", "\"", ":", "1", ",", "\"", "b", "\"", ":">>] }

\* What stands after it.
LiteralClosings(kind) ==
    IF kind = "top" THEN {<<>>, <<" ">>}
    ELSE IF kind = "array"
    THEN {<<"]">>, <<" ", "]">>, <<",", "1", "]">>, <<",", "t", "r", "u", "e", "]">>}
    ELSE {<<"}">>, <<" ", "}">>, <<",", "\"", "c", "\"", ":", "1", "}">>,
          <<",", "\"", "c", "\"", ":", "n", "u", "l", "l", "}">>}

\* A caller writes a text that holds a literal.
LiteralBegin ==
    /\ json.text = <<>>
    /\ \E o \in LiteralOpenings, l \in Literals :
          \E c \in LiteralClosings(o.kind) :
             json' = [json EXCEPT !.text = o.text \o l \o c]
    /\ UNCHANGED <<dlvars, tlsvars, callers, built>>

NextLiteral == LiteralBegin \/ JsonParse

SpecLiteral == InitJson /\ [][NextLiteral]_vars

\* The value the literal l has to parse to: r is the JsonValue parsed.
IsLiteralValue(r, l) ==
    IF l = Txt_null THEN r.t = "Null"
    ELSE r.t = "Boolean" /\ r.v = (l = Txt_true)

\* The result out of parsing o.text \o l \o c holds the value of l at its place.
LiteralParsed(out, o, l) ==
    /\ out.ok
    /\ IF o.kind = "top"
       THEN /\ IsLiteralValue(out, l)
            /\ out.pos = Len(o.text) + Len(l) + 1
       ELSE IF o.kind = "array"
       THEN /\ out.t = "Array"
            /\ Len(out.v) >= o.at
            /\ IsLiteralValue(out.v[o.at], l)
       ELSE /\ out.t = "Object"
            /\ Len(out.v) >= o.at
            /\ IsLiteralValue(out.v[o.at].v, l)

\* C30: parse_json maps the literal texts true, false and null to
\* Boolean(true), Boolean(false) and Null, at top level, as array elements
\* and as object member values, consuming exactly the characters of the
\* literal.
C30_LiteralsParsed ==
    json.out # NotParsed =>
        \A o \in LiteralOpenings, l \in Literals :
            \A c \in LiteralClosings(o.kind) :
                json.text = o.text \o l \o c => LiteralParsed(json.out, o, l)

\* The part of C30 without the literal false.
TrueAndNullParsed ==
    json.out # NotParsed =>
        \A o \in LiteralOpenings, l \in Literals \ {Txt_false} :
            \A c \in LiteralClosings(o.kind) :
                json.text = o.text \o l \o c => LiteralParsed(json.out, o, l)

FalseIsError ==
    (json.out # NotParsed /\ json.text = Txt_false)
    => (~json.out.ok /\ json.out.pos = 5)

=============================================================================
